---- MODULE Spec2Model ----
(***************************************************************************)
(* Model of the vocabulary quiz: the multiple-choice question generator    *)
(* (vocab_test.py) and the Streamlit session that drives it (app.py).      *)
(*                                                                         *)
(* Values.  A cell of a DataFrame, and every Python value the code handles,*)
(* is a TLA+ string.  A Python str is the string itself; a value that is   *)
(* not a str is written with a leading "#": "#nan" is the float NaN that   *)
(* pandas uses for a missing cell, "#1" is the integer 1.  So the Python   *)
(* comparison 1 == "1" (False) is "#1" = "1" (FALSE) here.  An Optional    *)
(* value is a sequence: None is << >>, a present value x is <<x>>.         *)
(* A DataFrame is [columns, rows]; a row is [word, meaning], and a cell of *)
(* a column the frame does not have is "#nan".                             *)
(***************************************************************************)
EXTENDS Integers, Sequences, FiniteSets, TLC

VARIABLES
    \* ---- a caller of generate_mcq_questions (vocab_test.py) ----
    table,          \* the caller's DataFrame
    n_questions,    \* argument n_questions
    n_options,      \* argument n_options
    words,          \* argument words: None or a list of str
    result,         \* None before the first call, then what the last call did
    prevShape,      \* the shape of the call before the last one, or None
    \* ---- st.session_state and the page (app.py) ----
    csv,            \* contents of word_list.csv (the environment)
    df, current_idx, questions, show_result, answers, study_df, phase,
    shown           \* the result block main() rendered in the last run, or None

genVars == <<table, n_questions, n_options, words, result, prevShape>>
appVars == <<csv, df, current_idx, questions, show_result, answers, study_df,
             phase, shown>>
vars == <<table, n_questions, n_options, words, result, prevShape,
          csv, df, current_idx, questions, show_result, answers, study_df,
          phase, shown>>

---------------------------------------------------------------------------
(* Bounds of the model *)
MaxRows == 2        \* rows of a table handed to the generator
MaxOptions == 4     \* largest n_options tried
MaxQuestions == 2   \* largest n_questions tried

---------------------------------------------------------------------------
(* Python values *)
None == << >>
Some(x) == <<x>>
NaN == "#nan"

IsStr(v) == Len(v) = 0 \/ SubSeq(v, 1, 1) # "#"

\* str(v): a str is itself, anything else is printed ("#nan" -> "nan", "#1" -> "1")
Str(v) == IF IsStr(v) THEN v ELSE Tail(v)

\* pandas.isna
IsNa(v) == v = NaN

RECURSIVE LStrip(_)
LStrip(s) == IF Len(s) > 0 /\ SubSeq(s, 1, 1) = " " THEN LStrip(Tail(s)) ELSE s

RECURSIVE RStrip(_)
RStrip(s) ==
    IF Len(s) > 0 /\ SubSeq(s, Len(s), Len(s)) = " "
    THEN RStrip(SubSeq(s, 1, Len(s) - 1)) ELSE s

\* str.strip()
Strip(s) == RStrip(LStrip(s))

Min(a, b) == IF a < b THEN a ELSE b

---------------------------------------------------------------------------
(* pandas and random *)

\* The ways to draw k positions out of n without replacement, in draw order
Draws(k, n) == {f \in [1..k -> 1..n] : \A i, j \in 1..k : i # j => f[i] # f[j]}

\* Series/DataFrame.sample(n=k, replace=False): every ordered draw of k
\* positions; pandas raises ValueError when k > len or k < 0 (SampleRaises)
Sample(s, k) == {[i \in 1..k |-> s[f[i]]] : f \in Draws(k, Len(s))}
SampleRaises(s, k) == k < 0 \/ k > Len(s)

\* random.shuffle, and sample(frac=1.0): any permutation
Shuffle(s) == Sample(s, Len(s))

\* dropna(subset=["word"]).reset_index(drop=True)
DropNaWord(rows) == SelectSeq(rows, LAMBDA r : ~IsNa(r.word))

\* dropna(subset=["word", "meaning"]).reset_index(drop=True)
DropNaIgnoringMeaning(rows) == SelectSeq(rows, LAMBDA r : ~IsNa(r.word))
DropNa(rows) == SelectSeq(rows, LAMBDA r : ~IsNa(r.word) /\ ~IsNa(r.meaning))

\* df[df["word"].isin(words)]
IsIn(rows, ws) ==
    SelectSeq(rows, LAMBDA r : \E i \in 1..Len(ws) : ws[i] = r.word)

\* drop_duplicates(subset=["word"]): the first row of every word is kept
RECURSIVE DropDuplicates(_)
KeepDuplicates(rows) == rows
DropDuplicates(rows) ==
    IF rows = << >> THEN << >>
    ELSE LET init == SubSeq(rows, 1, Len(rows) - 1)
             last == rows[Len(rows)]
         IN  IF \E i \in 1..Len(init) : init[i].word = last.word
             THEN DropDuplicates(init)
             ELSE Append(DropDuplicates(init), last)

Meanings(rows) == [i \in 1..Len(rows) |-> rows[i].meaning]

---------------------------------------------------------------------------
(* vocab_test.py: generate_mcq_questions *)

\* The exceptions the call can end with ("" when it returns).  The code raises
\* ValueError each time; the message tells the error kinds apart.
NoExc == ""
InvalidTableError == "ValueError: DataFrame must have the columns 'word' and 'meaning'"
EmptyTableError == "ValueError: the vocabulary table is empty"
NoMatchingWordsError == "ValueError: the given words are not in the DataFrame"
PandasSampleError == "ValueError: cannot take a larger sample than population"

\* line 34 rebinds the local name df to a new frame; the caller's frame is
\* not touched
CleanInPlace(rows) == [caller |-> DropNa(rows), local |-> DropNa(rows)]
Clean(rows) == [caller |-> rows, local |-> DropNa(rows)]

\* lines 39-48: the rows to quiz, in quiz order, or the exception raised
SelectByWordsUnchecked(rows, ws) ==
    {[exc |-> NoExc, base |-> b] : b \in Shuffle(DropDuplicates(IsIn(rows, ws)))}
SelectByWords(rows, ws) ==
    LET base_df == DropDuplicates(IsIn(rows, ws))
    IN  IF base_df = << >>
        THEN {[exc |-> NoMatchingWordsError, base |-> << >>]}
        ELSE {[exc |-> NoExc, base |-> b] : b \in Shuffle(base_df)}

SelectByCount(rows, nq) ==
    LET n == Min(nq, Len(rows))
    IN  IF SampleRaises(rows, n)
        THEN {[exc |-> PandasSampleError, base |-> << >>]}
        ELSE {[exc |-> NoExc, base |-> b] : b \in Sample(rows, n)}

\* line 57: df[df["word"] != word]["meaning"]
OtherMeanings(rows, word) ==
    Meanings(SelectSeq(rows, LAMBDA r : r.word # word))

\* line 58
TakesFallbackAtEqual(other, nopt) == Len(other) <= nopt - 1
TakesFallback(other, nopt) == Len(other) < nopt - 1

\* lines 68-69: options = wrongs + [correct]; random.shuffle(options)
OptionsWithoutCorrect(wrongs, correct) == Shuffle(wrongs)
Options(wrongs, correct) == Shuffle(wrongs \o <<correct>>)

\* lines 53-77, one pass of the loop: the questions it can append, or raised;
\* fell tells whether the pass took the fallback of line 60
BuildQuestion(rows, row, nopt) ==
    LET word == Str(row.word)
        correct == Str(row.meaning)
        other == OtherMeanings(rows, word)
        fell == TakesFallback(other, nopt)
        other_meanings == IF fell THEN Meanings(rows) ELSE other
    IN  IF SampleRaises(other_meanings, nopt - 1)
        THEN {[raised |-> TRUE, fell |-> fell,
               q |-> [word |-> word, correct |-> correct, options |-> << >>]]}
        ELSE {[raised |-> FALSE, fell |-> fell,
               q |-> [word |-> word, correct |-> correct, options |-> o]] :
                 o \in UNION {Options([i \in 1..Len(w) |-> Str(w[i])], correct) :
                                w \in Sample(other_meanings, nopt - 1)}}

\* lines 50-79: the loop over base_df
RECURSIVE BuildQuestions(_, _, _)
BuildQuestions(rows, base, nopt) ==
    IF base = << >>
    THEN {[exc |-> NoExc, questions |-> << >>, fell |-> << >>]}
    ELSE UNION {
           IF h.raised
           THEN {[exc |-> PandasSampleError, questions |-> << >>,
                  fell |-> <<h.fell>>]}
           ELSE {[exc |-> t.exc,
                  questions |-> IF t.exc = NoExc THEN <<h.q>> \o t.questions
                                ELSE << >>,
                  fell |-> <<h.fell>> \o t.fell] :
                    t \in BuildQuestions(rows, Tail(base), nopt)} :
           h \in BuildQuestion(rows, Head(base), nopt)}

Raises(caller, exc) ==
    {[caller |-> caller, exc |-> exc, questions |-> << >>, fell |-> << >>]}

\* The whole call: every way it can end.  caller is the caller's frame after
\* the call, exc the exception ("" on return), questions the list returned,
\* fell (an observation, not a value of the program) one flag per pass of
\* the loop: did it take the fallback.
generate_mcq_questions(frame, nq, nopt, ws) ==
    IF ~({"word", "meaning"} \subseteq frame.columns)
    THEN Raises(frame, InvalidTableError)
    ELSE
    LET c == Clean(frame.rows)
        caller == [frame EXCEPT !.rows = c.caller]
    IN  IF c.local = << >>
        THEN Raises(caller, EmptyTableError)
        ELSE UNION {
               IF s.exc # NoExc
               THEN Raises(caller, s.exc)
               ELSE {[caller |-> caller, exc |-> r.exc,
                      questions |-> r.questions, fell |-> r.fell] :
                       r \in BuildQuestions(c.local, s.base, nopt)} :
               s \in IF ws # None THEN SelectByWords(c.local, ws[1])
                     ELSE SelectByCount(c.local, nq)}

\* What two calls are compared by: how the call ended, the number of
\* questions, and the lengths of their option lists
Shape(r) ==
    [exc |-> r.exc, n |-> Len(r.questions),
     optlens |-> {Len(r.questions[i].options) : i \in 1..Len(r.questions)}]

---------------------------------------------------------------------------
(* A caller of the generator: the inputs are drawn once, then it is called
   any number of times with them *)

Row(w, m) == [word |-> w, meaning |-> m]

RowValues ==
    {Row("a", "x"), Row("b", "y"), Row("c", ""), Row("a", "y"),
     Row("b", NaN), Row(NaN, "x")}

RECURSIVE SeqsUpTo(_, _)
SeqsUpTo(S, n) ==
    IF n = 0 THEN {<< >>}
    ELSE LET shorter == SeqsUpTo(S, n - 1)
         IN  shorter \cup {Append(s, x) : s \in shorter, x \in S}

Frame(rows) == [columns |-> {"word", "meaning"}, rows |-> rows]

Tables ==
    {Frame(rows) : rows \in SeqsUpTo(RowValues, MaxRows)}
    \cup {[columns |-> {"word"}, rows |-> <<Row("a", NaN)>>],
          [columns |-> {"meaning"}, rows |-> <<Row(NaN, "x")>>]}

WordLists ==
    {<< >>, <<"a">>, <<"d">>, <<"a", "a">>, <<"b", "a">>, <<"c", "d">>}

GenInit ==
    /\ table \in Tables
    /\ n_questions \in 0..MaxQuestions
    /\ n_options \in 2..MaxOptions
    /\ words \in {None} \cup {Some(ws) : ws \in WordLists}
    /\ result = None
    /\ prevShape = None
    /\ csv = None /\ df = None /\ current_idx = None /\ questions = None
    /\ show_result = FALSE /\ answers = << >> /\ study_df = None
    /\ phase = "idle" /\ shown = None

\* One call.  The caller holds no result when it calls.
Generate ==
    /\ result = None
    /\ \E r \in generate_mcq_questions(table, n_questions, n_options, words) :
         /\ table' = r.caller
         /\ result' = Some([given |-> table, exc |-> r.exc,
                            questions |-> r.questions, fell |-> r.fell,
                            before |-> prevShape])
    /\ UNCHANGED <<n_questions, n_options, words, prevShape>>
    /\ UNCHANGED appVars

\* The caller lets go of the result
Discard ==
    /\ result # None
    /\ result' = None
    /\ UNCHANGED <<table, n_questions, n_options, words, prevShape>>
    /\ UNCHANGED appVars

GenNext == Generate \/ Discard

Spec == GenInit /\ [][GenNext]_vars

\* A caller that calls with a count, again and again, and compares each
\* result with the one before
TwiceRowValues == {Row("a", "x"), Row("b", "y"), Row("b", NaN), Row(NaN, "x")}

TwiceInit ==
    /\ GenInit
    /\ words = None
    /\ table \in {Frame(rows) : rows \in SeqsUpTo(TwiceRowValues, MaxRows)}

\* The caller notes the shape of what it got and lets go of the result
Record ==
    /\ result # None
    /\ prevShape' = Some(Shape(result[1]))
    /\ result' = None
    /\ UNCHANGED <<table, n_questions, n_options, words>>
    /\ UNCHANGED appVars

TwiceNext == Generate \/ Record

SpecTwice == TwiceInit /\ [][TwiceNext]_vars

---------------------------------------------------------------------------
(* app.py: the dictionary and translation services *)

\* What the dictionary API holds: a definition for a word, or nothing ("")
Dictionary(word) == IF word = "d" THEN " p" ELSE ""

\* fetch_meaning_for_word: "" for an empty word, on any failure of the
\* request (which can happen on every call) and for an unknown word;
\* otherwise the first definition, stripped
fetch_meaning_for_word(word) ==
    IF word = "" THEN {""}
    ELSE {""} \cup {Strip(Dictionary(word))}

\* The translation service's answer for a text
Translation(text) == "zh:" \o text \o " "

\* translate_to_zh: "" for an empty text and on any failure, otherwise the
\* translation, stripped
translate_to_zh(text) ==
    IF text = "" THEN {""}
    ELSE {""} \cup {Strip(Translation(text))}

\* lines 93-113, one row: the meanings the row can end with.  The code writes
\* the pair as final_en, a fullwidth "(", zh and a fullwidth ")".
EnrichedMeaning(row) ==
    LET word == Strip(Str(row.word))
        old_meaning == Strip(Str(IF IsNa(row.meaning) THEN "" ELSE row.meaning))
    IN  UNION {
          LET final_en == IF new_en # "" THEN new_en ELSE old_meaning
          IN  {IF final_en # "" /\ zh # "" THEN final_en \o "(" \o zh \o ")"
               ELSE final_en :
                 zh \in IF final_en # "" THEN translate_to_zh(final_en)
                        ELSE {""}} :
          new_en \in fetch_meaning_for_word(word)}

\* every way to pick one element of S[i] for each i
RECURSIVE Choices(_)
Choices(S) ==
    IF S = << >> THEN {<< >>}
    ELSE {<<h>> \o t : h \in Head(S), t \in Choices(Tail(S))}

\* ensure_meanings: the frames it can return, or raised when there is no
\* 'word' column.  A missing 'meaning' column is created with "".
ensure_meanings(frame) ==
    IF "word" \notin frame.columns
    THEN {[raised |-> TRUE, frame |-> frame]}
    ELSE
    LET rows == IF "meaning" \in frame.columns THEN frame.rows
                ELSE [i \in 1..Len(frame.rows) |->
                        [frame.rows[i] EXCEPT !.meaning = ""]]
    IN  {[raised |-> FALSE,
          frame |-> [columns |-> frame.columns \cup {"meaning"},
                     rows |-> [i \in 1..Len(rows) |->
                                 [rows[i] EXCEPT !.meaning = m[i]]]]] :
           m \in Choices([i \in 1..Len(rows) |-> EnrichedMeaning(rows[i])])}

---------------------------------------------------------------------------
(* app.py: word_list.csv and load_local_csv *)

\* A CSV file is its header and its lines; an empty field is read as NaN,
\* a column of numbers as numbers
HasName(header, name) == \E i \in 1..Len(header) : header[i] = name
Column(header, name) == CHOOSE i \in 1..Len(header) : header[i] = name

\* lines 164-173: the first column is named 'word' when no column is, then
\* the second 'meaning' when no column is and there are two
RenameColumns(header) ==
    LET h1 == IF ~HasName(header, "word")
              THEN [header EXCEPT ![1] = "word"] ELSE header
    IN  IF ~HasName(h1, "meaning") /\ Len(h1) >= 2
        THEN [h1 EXCEPT ![2] = "meaning"] ELSE h1

\* the frame read from the file, columns renamed
ReadFrame(file) ==
    LET header == RenameColumns(file.header)
        cell(line, name) == IF HasName(header, name)
                            THEN line[Column(header, name)] ELSE NaN
    IN  [columns |-> {header[i] : i \in 1..Len(header)},
         rows |-> [i \in 1..Len(file.lines) |->
                     Row(cell(file.lines[i], "word"),
                         cell(file.lines[i], "meaning"))]]

\* load_local_csv: None when the file cannot be read or ensure_meanings
\* raises, otherwise the frame without the rows that have no word
load_local_csv(file) ==
    IF file = None THEN {None}
    ELSE {IF e.raised THEN None
          ELSE Some(Frame(DropNaWord(e.frame.rows))) :
            e \in ensure_meanings(ReadFrame(file[1]))}

CsvFiles ==
    {None,
     Some([header |-> <<"term">>, lines |-> <<<<"d">>, <<"d">>, <<"d">>>>]),
     Some([header |-> <<"word", "meaning">>,
           lines |-> <<<<"a", " x">>, <<"a", NaN>>, <<NaN, "y">>, <<"b", NaN>>>>]),
     Some([header |-> <<"word", "meaning">>,
           lines |-> <<<<"#1", NaN>>, <<"#2", NaN>>, <<"#3", NaN>>>>]),
     Some([header |-> <<"word", "meaning">>,
           lines |-> <<<<"a", "x">>, <<"b", "y">>>>]),
     Some([header |-> <<"note", "word">>, lines |-> <<<<"n", "a">>>>]),
     Some([header |-> <<"word">>, lines |-> << >>])}

---------------------------------------------------------------------------
(* app.py: the session *)

NOptionsTest == 4       \* n_options of the call in start_test_from_study
DefaultNQuestions == 10 \* default of n_questions, which that call leaves
MinPractice == 3        \* min_value of the number input
MaxPractice == 50       \* cap of its max_value

AppInit ==
    /\ csv \in CsvFiles
    /\ df = None
    /\ current_idx = None
    /\ questions = None
    /\ show_result = FALSE
    /\ answers = << >>
    /\ study_df = None
    /\ phase = "idle"
    /\ shown = None
    /\ table = Frame(<< >>) /\ n_questions = 0 /\ n_options = 0
    /\ words = None /\ result = None /\ prevShape = None

IsEmptyFrame(f) == f[1].rows = << >>

\* bool(questions): None and the empty list are falsy
Truthy(qs) == qs # None /\ qs[1] # << >>

\* lines 343-352: the questions whose recorded answer is the correct one
CorrectCount(qs, ans) ==
    Cardinality({i \in 1..Len(qs) : i \in DOMAIN ans /\ ans[i] = qs[i].correct})

\* lines 366-370: the words of the questions answered otherwise, in order
RECURSIVE WrongWordsAnsweredOnly(_, _)
RECURSIVE WrongWords(_, _)
WrongWordsAnsweredOnly(qs, ans) ==
    IF qs = << >> THEN << >>
    ELSE LET n == Len(qs)
             init == WrongWordsAnsweredOnly(SubSeq(qs, 1, n - 1), ans)
         IN  IF n \in DOMAIN ans /\ ans[n] # qs[n].correct
             THEN Append(init, qs[n].word) ELSE init
WrongWords(qs, ans) ==
    IF qs = << >> THEN << >>
    ELSE LET n == Len(qs)
             init == WrongWords(SubSeq(qs, 1, n - 1), ans)
         IN  IF ~(n \in DOMAIN ans /\ ans[n] = qs[n].correct)
             THEN Append(init, qs[n].word) ELSE init

\* lines 321-372: the result block of a run, None when it is not rendered
ResultBlock(ph, qs, show, ans) ==
    IF ph = "test" /\ Truthy(qs) /\ show
    THEN Some([correct_count |-> CorrectCount(qs[1], ans),
               total |-> Len(qs[1]),
               wrong_words |-> WrongWords(qs[1], ans)])
    ELSE None

\* the number input of line 295 offers MinPractice..min(MaxPractice, len(df));
\* with fewer rows Streamlit rejects the widget and the run ends there, so
\* nothing below it is on the page
PracticeCounts ==
    IF df = None THEN {}
    ELSE MinPractice..Min(MaxPractice, Len(df[1].rows))

WidgetsShown == PracticeCounts # {}

\* pick_random_word
pick_random_word(frame, idx) ==
    IF frame = None \/ IsEmptyFrame(frame) THEN {idx}
    ELSE {Some(i) : i \in 0..(Len(frame[1].rows) - 1)}

\* The first run of main(), and every run while the CSV has not been read:
\* lines 264-281
FirstRun ==
    /\ df = None
    /\ \E loaded \in load_local_csv(csv) :
         /\ df' = loaded
         /\ current_idx' \in IF loaded = None THEN {current_idx}
                             ELSE pick_random_word(loaded, current_idx)
    /\ shown' = ResultBlock(phase, questions, show_result, answers)
    /\ UNCHANGED <<csv, questions, show_result, answers, study_df, phase>>
    /\ UNCHANGED genVars

\* A run with the button of line 283 pressed
ClickNextWord ==
    /\ df # None
    /\ current_idx' \in pick_random_word(df, current_idx)
    /\ shown' = ResultBlock(phase, questions, show_result, answers)
    /\ UNCHANGED <<csv, df, questions, show_result, answers, study_df, phase>>
    /\ UNCHANGED genVars

\* prepare_study_list, in a run with the button of line 303 pressed
ClickPrepare ==
    /\ WidgetsShown
    /\ \E num_questions \in PracticeCounts :
         IF df = None \/ IsEmptyFrame(df)
         THEN UNCHANGED <<study_df, phase, questions, show_result, answers>>
         ELSE /\ study_df' \in
                   {Some(Frame(s)) :
                      s \in Sample(df[1].rows,
                                   Min(num_questions, Len(df[1].rows)))}
              /\ phase' = "study"
              /\ questions' = None
              /\ show_result' = FALSE
              /\ answers' = << >>
    /\ shown' = ResultBlock(phase', questions', show_result', answers')
    /\ UNCHANGED <<csv, df, current_idx>>
    /\ UNCHANGED genVars

\* start_test_from_study, in a run with the button of line 315 pressed
ClickStartTestPhaseFirst ==
    /\ WidgetsShown
    /\ phase = "study" /\ study_df # None
    /\ IF df = None \/ IsEmptyFrame(df) \/ IsEmptyFrame(study_df)
       THEN UNCHANGED <<df, questions, phase, show_result, answers>>
       ELSE \E r \in generate_mcq_questions(
                       df[1], DefaultNQuestions, NOptionsTest,
                       Some([i \in 1..Len(study_df[1].rows) |->
                               Str(study_df[1].rows[i].word)])) :
              /\ df' = Some(r.caller)
              /\ phase' = "test"
              /\ IF r.exc # NoExc
                 THEN UNCHANGED <<questions, show_result, answers>>
                 ELSE /\ questions' = Some(r.questions)
                      /\ show_result' = FALSE
                      /\ answers' = << >>
    /\ shown' = ResultBlock(phase', questions', show_result', answers')
    /\ UNCHANGED <<csv, current_idx, study_df>>
    /\ UNCHANGED genVars
ClickStartTest ==
    /\ WidgetsShown
    /\ phase = "study" /\ study_df # None
    /\ IF df = None \/ IsEmptyFrame(df) \/ IsEmptyFrame(study_df)
       THEN UNCHANGED <<df, questions, phase, show_result, answers>>
       ELSE \E r \in generate_mcq_questions(
                       df[1], DefaultNQuestions, NOptionsTest,
                       Some([i \in 1..Len(study_df[1].rows) |->
                               Str(study_df[1].rows[i].word)])) :
              /\ df' = Some(r.caller)
              /\ IF r.exc # NoExc
                 THEN UNCHANGED <<questions, phase, show_result, answers>>
                 ELSE /\ questions' = Some(r.questions)
                      /\ phase' = "test"
                      /\ show_result' = FALSE
                      /\ answers' = << >>
    /\ shown' = ResultBlock(phase', questions', show_result', answers')
    /\ UNCHANGED <<csv, current_idx, study_df>>
    /\ UNCHANGED genVars

\* A run after the user picked an option of question i (0-based in the code,
\* 1-based here): lines 325-336
SelectOption ==
    /\ WidgetsShown
    /\ phase = "test" /\ Truthy(questions)
    /\ \E i \in 1..Len(questions[1]) :
         \E k \in 1..Len(questions[1][i].options) :
           answers' = [j \in DOMAIN answers \cup {i} |->
                         IF j = i THEN questions[1][i].options[k]
                         ELSE answers[j]]
    /\ shown' = ResultBlock(phase, questions, show_result, answers')
    /\ UNCHANGED <<csv, df, current_idx, questions, show_result, study_df, phase>>
    /\ UNCHANGED genVars

\* A run with the submit button of line 339 pressed
ClickSubmit ==
    /\ WidgetsShown
    /\ phase = "test" /\ Truthy(questions)
    /\ show_result' = TRUE
    /\ shown' = ResultBlock(phase, questions, TRUE, answers)
    /\ UNCHANGED <<csv, df, current_idx, questions, answers, study_df, phase>>
    /\ UNCHANGED genVars

AppNext ==
    \/ FirstRun
    \/ ClickNextWord
    \/ ClickPrepare
    \/ ClickStartTest
    \/ SelectOption
    \/ ClickSubmit

SpecApp == AppInit /\ [][AppNext]_vars

---------------------------------------------------------------------------
(* Properties of the generator *)

HasColumns == {"word", "meaning"} \subseteq table.columns

\* The rows the spec calls cleaned: both cells present
Cleaned == SelectSeq(table.rows, LAMBDA r : r.word # NaN /\ r.meaning # NaN)

Called == result # None
Returned == result # None /\ result[1].exc = NoExc
Qs == result[1].questions

ElementsOf(s) == {s[i] : i \in 1..Len(s)}
Count(s, v) == Cardinality({i \in 1..Len(s) : s[i] = v})
IsPermutation(s, t) ==
    /\ Len(s) = Len(t)
    /\ \A v \in ElementsOf(s) \cup ElementsOf(t) : Count(s, v) = Count(t, v)

\* C1: when the cleaned rows carry at least n_options distinct meanings, every
\* question returned has exactly n_options options and its correct value is
\* among them, in either selection mode.
C1_OptionsShape ==
    (Returned /\ Cardinality(ElementsOf(Meanings(Cleaned))) >= n_options) =>
        \A i \in 1..Len(Qs) :
            /\ Len(Qs[i].options) = n_options
            /\ Qs[i].correct \in ElementsOf(Qs[i].options)

C1_Witness ==
    /\ Returned
    /\ Cardinality(ElementsOf(Meanings(Cleaned))) >= n_options
    /\ Len(Qs) = 2
    /\ words # None

\* C2: a call that returns gives min(n_questions, cleaned rows) questions when
\* no word list is given, and one question per distinct word of the list that
\* occurs in the cleaned table when a list is given.
C2_QuestionCount ==
    Returned =>
        IF words = None
        THEN Len(Qs) = Min(n_questions, Len(Cleaned))
        ELSE Len(Qs) =
               Cardinality({w \in ElementsOf(words[1]) :
                              \E i \in 1..Len(Cleaned) : Cleaned[i].word = w})

\* a repeated word in the list, two rows for it in the table, n_questions
\* different from the count
C2_Witness ==
    /\ Returned
    /\ words = Some(<<"a", "a">>)
    /\ Cardinality({i \in 1..Len(Cleaned) : Cleaned[i].word = "a"}) = 2
    /\ n_questions # 1
    /\ Len(Qs) = 1

\* the count form clamped: more questions asked for than rows
C2_WitnessClamped ==
    Returned /\ words = None /\ n_questions > Len(Cleaned) /\ Len(Qs) = 1

\* C3 (as claimed): a call in which a pass of the loop found the pool of other
\* meanings shorter than n_options-1, and so took the fallback, returns
\* without raising.
C3_FallbackReturns ==
    Called => \A i \in 1..Len(result[1].fell) :
                 result[1].fell[i] => result[1].exc = NoExc

\* C4 (as claimed): with a word list none of whose words occurs in the cleaned
\* table, the call fails with NoMatchingWordsError and returns no questions.
NoWordMatches ==
    /\ words # None
    /\ HasColumns
    /\ \A w \in ElementsOf(words[1]) :
          \A i \in 1..Len(Cleaned) : Cleaned[i].word # w

C4_Original ==
    (Called /\ NoWordMatches) =>
        (result[1].exc = NoMatchingWordsError /\ Qs = << >>)

\* C4 (amended): the same, for a cleaned table that is not empty; the error is
\* neither of the two table errors.
C4_NoMatchingWords ==
    (Called /\ NoWordMatches /\ Cleaned # << >>) =>
        /\ result[1].exc = NoMatchingWordsError
        /\ result[1].exc \notin {NoExc, InvalidTableError, EmptyTableError}
        /\ Qs = << >>

C4_Witness ==
    /\ Called /\ NoWordMatches /\ Cleaned # << >>
    /\ words = Some(<<"c", "d">>)
    /\ result[1].exc = NoMatchingWordsError

\* C5: a table with both columns in which every row misses its word or its
\* meaning fails with EmptyTableError, in both selection modes, and no pass of
\* the question loop has run.
AllRowsMissing ==
    /\ HasColumns
    /\ \A i \in 1..Len(table.rows) :
          table.rows[i].word = NaN \/ table.rows[i].meaning = NaN

C5_EmptyTable ==
    (Called /\ AllRowsMissing) =>
        /\ result[1].exc = EmptyTableError
        /\ Qs = << >>
        /\ result[1].fell = << >>

C5_Witness ==
    /\ Called /\ AllRowsMissing
    /\ Len(table.rows) = 2
    /\ words = Some(<<"b", "a">>)
    /\ result[1].exc = EmptyTableError

C5_WitnessCount ==
    /\ Called /\ AllRowsMissing /\ Len(table.rows) = 2 /\ words = None
    /\ n_questions = 1
    /\ result[1].exc = EmptyTableError

\* C6: a call leaves the caller's table as it was, and a call that returns
\* after an earlier call with the same table, count and n_options that
\* returned has as many questions, with option lists of the same lengths.
C6_FrameAndShape ==
    Called =>
        /\ table = result[1].given
        /\ (result[1].before # None /\ result[1].exc = NoExc
               /\ result[1].before[1].exc = NoExc) =>
              /\ Len(Qs) = result[1].before[1].n
              /\ {Len(Qs[i].options) : i \in 1..Len(Qs)} =
                    result[1].before[1].optlens

\* a second call on a table that has a row with a missing field
C6_Witness ==
    /\ Called /\ result[1].before # None /\ result[1].exc = NoExc
    /\ result[1].before[1].exc = NoExc
    /\ Len(Qs) = 1
    /\ Len(table.rows) = 2 /\ Len(Cleaned) = 1

\* C8: for a cleaned table of exactly n_options rows with pairwise distinct
\* words, no pass takes the fallback and every question's options are a
\* permutation of the table's meanings.
DistinctWords(rows) ==
    \A i, j \in 1..Len(rows) : i # j => rows[i].word # rows[j].word

C7_NoEmptyEntryReturned ==
    Returned =>
        \A i \in 1..Len(Qs) :
            /\ Qs[i].word # ""
            /\ Qs[i].correct # ""
            /\ "" \notin ElementsOf(Qs[i].options)

---------------------------------------------------------------------------
(* Properties of the session *)

\* C9: a run of start_test_from_study either installs a non-empty list of
\* questions, sets phase to "test", clears the answers and hides the result,
\* or leaves phase, questions, answers and show_result as they were; in every
\* state phase = "test" implies a non-empty list of questions, and a shown
\* result implies phase = "test".
StartSucceeded ==
    /\ Truthy(questions')
    /\ phase' = "test"
    /\ answers' = << >>
    /\ show_result' = FALSE

C9_StartTestAllOrNothing ==
    /\ [](phase = "test" => Truthy(questions))
    /\ [](show_result => phase = "test")
    /\ [][ClickStartTest =>
            (StartSucceeded \/ UNCHANGED <<phase, questions, answers, show_result>>)]_vars

\* a test just started, after an earlier one was answered and submitted
C9_Witness ==
    /\ phase = "test" /\ Truthy(questions)
    /\ answers = << >> /\ ~show_result
    /\ Len(questions[1]) = 2

\* a study list on which the generator raises: the words of the table are
\* numbers, the words asked for are their strings
C9_WitnessRaises ==
    /\ phase = "study" /\ study_df # None /\ df # None
    /\ \A r \in generate_mcq_questions(
                  df[1], DefaultNQuestions, NOptionsTest,
                  Some([i \in 1..Len(study_df[1].rows) |->
                          Str(study_df[1].rows[i].word)])) :
          r.exc = NoMatchingWordsError

\* C10: the result block counts exactly the questions whose recorded answer
\* is the correct one, lists the words of all the others (unanswered ones
\* too) in question order, and the two add up to the number of questions.
Missed == {i \in 1..Len(questions[1]) :
             i \notin DOMAIN answers \/ answers[i] # questions[1][i].correct}
NthMissed(j) == CHOOSE i \in Missed : Cardinality({m \in Missed : m < i}) = j - 1

C10_Score ==
    shown # None =>
        /\ shown[1].total = Len(questions[1])
        /\ shown[1].correct_count = Len(questions[1]) - Cardinality(Missed)
        /\ Len(shown[1].wrong_words) = Cardinality(Missed)
        /\ \A j \in 1..Cardinality(Missed) :
              shown[1].wrong_words[j] = questions[1][NthMissed(j)].word
        /\ shown[1].correct_count + Len(shown[1].wrong_words) = shown[1].total

\* one question answered correctly, the other not answered
C10_Witness ==
    /\ shown # None
    /\ Len(questions[1]) = 2
    /\ DOMAIN answers = {2}
    /\ shown[1].correct_count = 1
    /\ Len(shown[1].wrong_words) = 1

\* one question answered correctly, the other answered wrongly
C10_WitnessWrong ==
    /\ shown # None
    /\ Len(questions[1]) = 2
    /\ DOMAIN answers = {1, 2}
    /\ shown[1].correct_count = 1

\* C7 (as claimed): no question of the session has an empty word or an empty
\* correct meaning, and no option is empty, also when the table comes from
\* ensure_meanings with an enrichment that failed.
C7_NoEmptyEntry ==
    questions # None =>
        \A i \in 1..Len(questions[1]) :
            /\ questions[1][i].word # ""
            /\ questions[1][i].correct # ""
            /\ "" \notin ElementsOf(questions[1][i].options)

====
